---- MODULE Spec2Model ----
(***************************************************************************)
(* Model of the buddy allocator of arogez/allocators                       *)
(* (src/buddy_allocator.h) with the helpers it calls: the intrusive list   *)
(* (list.h), the bit helpers (src/bit.h) and the backing heap              *)
(* (src/heap.h).                                                           *)
(*                                                                         *)
(* Pointers are integers (byte addresses), NULL is 0.  The arena is a      *)
(* map from its 8-byte words to their contents, so that the list node       *)
(* stored in a free block and the prefix stored in an allocated block      *)
(* share memory exactly as they do in the C code (LP64, little endian:     *)
(* sizeof(struct buddy_block_prefix) = 16, the prefix's k is the low byte  *)
(* of its word).  An access outside the modelled objects (arena words,     *)
(* nodes[0..27], the bitset's words), a read of an indeterminate word or   *)
(* an invalid shift is undefined behaviour: the call ends in the state     *)
(* st = "fault", which stands for every outcome the build may produce,     *)
(* and nothing further is modelled.  A list walk that never ends puts the  *)
(* call in st = "hang".                                                    *)
(***************************************************************************)
EXTENDS Integers, FiniteSets, Sequences, TLC

VARIABLES
    heap,       \* struct heap: [hft, alloc_count]
    bdy,        \* struct buddy_heap: [k, alignment, nodes, data]
    bitset,     \* *bdy->bits: bit index -> 0 or 1
    mem,        \* the arena: word address -> content
    st,         \* "ok" | "fault" | "hang"
    live,       \* caller's view: the allocations returned and not yet freed
    op,         \* the last call: its name, argument, result and locals
    calls,      \* the number of calls made so far
    blk,        \* struct block_heap: [block_size, nblocks, first_free_block, data]
    cells,      \* the cells block_alloc returned and block_free has not taken
    scr,        \* struct scratch_heap: [head, tail, mem]
    log         \* the scratch heap's client: header in use and calls made

vars == <<heap, bdy, bitset, mem, st, live, op, calls, blk, cells, scr, log>>

----------------------------------------------------------------------------
(* Program constants *)

NULL == 0
BUDDY_MAX_K == 28
BUDDY_MIN_K == 6
META_ALIGNMENT == 32
PrefixSize == 16
PtrSize == 8
B_NOSPLIT == 0
B_SPLIT == 1
H_COUNT == 0
H_CLEAR == 1
H_DEBUG == 2
CHAR_BIT == 8

(* Bounds of the model *)

MaxK == 10
MaxLive == 2
MaxCalls == 5
MaxFill == 17
MaxHeapCalls == 3

----------------------------------------------------------------------------
(* Arithmetic helpers standing for C operators *)

RECURSIVE Pow2(_)
Pow2(e) == IF e <= 0 THEN 1 ELSE 2 * Pow2(e - 1)

\* bit(A): 1 << A
bit(a) == Pow2(a)

BUDDY_SPLIT == bit(B_SPLIT)
BUDDY_NOSPLIT == bit(B_NOSPLIT)
HEAP_COUNT == bit(H_COUNT)
HEAP_CLEAR == bit(H_CLEAR)
HEAP_DEBUG == bit(H_DEBUG)

\* a shift count C defines for a 32-bit int
ShiftOK(e) == e >= 0 /\ e <= 30

\* an alignment step that masks to the word size, whatever a is
AlignDownToWord(x, a) == x - (x % PtrSize)

\* x & ~(a - 1) for a power of two a
AlignDown(x, a) == x - (x % a)

\* x ^ b for a power of two b and x >= 0
XorPow2(x, b) == IF (x \div b) % 2 = 0 THEN x + b ELSE x - b

\* flags & mask for a single-bit mask
HasFlag(flags, mask) == (flags \div mask) % 2 = 1

RECURSIVE BitAnd(_, _)
BitAnd(a, b) ==
    IF a = 0 \/ b = 0 THEN 0
    ELSE (IF a % 2 = 1 /\ b % 2 = 1 THEN 1 ELSE 0) + 2 * BitAnd(a \div 2, b \div 2)

RECURSIVE BitOr(_, _)
BitOr(a, b) ==
    IF a = 0 THEN b
    ELSE IF b = 0 THEN a
    ELSE (IF a % 2 = 1 \/ b % 2 = 1 THEN 1 ELSE 0) + 2 * BitOr(a \div 2, b \div 2)

\* a >> n
Shr(a, n) == a \div Pow2(n)

\* number of trailing zero bits of a > 0
RECURSIVE Ctz(_)
Ctz(a) == IF a % 2 = 1 THEN 0 ELSE 1 + Ctz(a \div 2)

----------------------------------------------------------------------------
(* src/bit.h *)

bit_position_lookup ==
    <<0, 1, 28, 2, 29, 14, 24, 3, 30, 22, 20, 15, 25, 17, 4, 8,
      31, 27, 13, 23, 21, 19, 16, 7, 26, 12, 18, 6, 11, 5, 10, 9>>

DeBruijn == 125613361     \* 0x077CB531

\* ((uint32_t)((a & -a) * 0x077CB531U)) >> 27, for a > 0.  a & -a is
\* 2^t with t the number of trailing zeros, and DeBruijn < 2^27, so the
\* product modulo 2^32 shifted right by 27 is computed without leaving
\* 32-bit signed integers.
DeBruijnIndex(a) ==
    LET t == Ctz(a) IN
    IF t <= 5 THEN DeBruijn \div Pow2(27 - t)
    ELSE IF t <= 27 THEN (DeBruijn % Pow2(32 - t)) \div Pow2(27 - t)
    ELSE (DeBruijn % Pow2(32 - t)) * Pow2(t - 27)

\* a = 0 gives (0 * c) >> 27 = 0, the table's first entry
trailing_zeros_count(a) ==
    IF a = 0 THEN bit_position_lookup[1]
    ELSE bit_position_lookup[DeBruijnIndex(a) + 1]

\* the bit smear, for 0 < a < 2^30
pow2_roundup(a) ==
    LET a0 == a - 1
        a1 == BitOr(a0, Shr(a0, 1))
        a2 == BitOr(a1, Shr(a1, 2))
        a3 == BitOr(a2, Shr(a2, 4))
        a4 == BitOr(a3, Shr(a3, 8))
        a5 == BitOr(a4, Shr(a4, 16))
    IN  a5 + 1

----------------------------------------------------------------------------
(* The machine state the C functions work on:                             *)
(*   m.k, m.alignment, m.data, m.nodes   struct buddy_heap                 *)
(*   m.bits    bit index -> 0 | 1, over the bits of the bitset's object    *)
(*   m.mem     word address -> content, over the words of the arena        *)
(*   m.st      "ok" | "fault" | "hang"                                     *)
(* A word holds a non-negative value, or Indeterminate (never written), or *)
(* PartialWord(v): only its low byte, v, was written.                      *)

Indeterminate == 0 - 1
PartialWord(v) == 0 - (1000 + v)

Fault(m) == [m EXCEPT !.st = "fault"]
Hang(m) == [m EXCEPT !.st = "hang"]

\* *(void **)a can be read
Readable(m, a) == a \in DOMAIN m.mem /\ m.mem[a] >= 0

\* *(void **)a = v
WriteWord(m, a, v) ==
    IF m.st # "ok" THEN m
    ELSE IF a \notin DOMAIN m.mem THEN Fault(m)
    ELSE [m EXCEPT !.mem[a] = v]

\* *(uint8_t *)a = v
WriteByte(m, a, v) ==
    IF m.st # "ok" THEN m
    ELSE IF a \notin DOMAIN m.mem THEN Fault(m)
    ELSE LET old == m.mem[a] IN
         [m EXCEPT !.mem[a] = IF old >= 0 THEN (old - (old % 256)) + v
                              ELSE PartialWord(v)]

\* *(uint8_t *)a can be read
ByteReadable(m, a) == a \in DOMAIN m.mem /\ m.mem[a] # Indeterminate

ReadByte(m, a) ==
    LET w == m.mem[a] IN IF w >= 0 THEN w % 256 ELSE 0 - (w + 1000)

----------------------------------------------------------------------------
(* list.h: the list is intrusive, a node is the first word of its block.   *)
(* A list is named by the index i of its head, nodes[i].head.              *)

list_push(m, i, ptr) ==
    IF m.st # "ok" THEN m
    ELSE IF i \notin DOMAIN m.nodes THEN Fault(m)
    ELSE IF ptr = NULL THEN m
    ELSE IF m.nodes[i] = NULL
         THEN WriteWord([m EXCEPT !.nodes[i] = ptr], ptr, NULL)
         ELSE [WriteWord(m, ptr, m.nodes[i]) EXCEPT !.nodes[i] = ptr]

list_pop(m, i) ==
    IF m.st # "ok" THEN m
    ELSE IF i \notin DOMAIN m.nodes THEN Fault(m)
    ELSE IF m.nodes[i] = NULL THEN m
    ELSE IF ~Readable(m, m.nodes[i]) THEN Fault(m)
    ELSE [m EXCEPT !.nodes[i] = m.mem[m.nodes[i]]]

\* the while loop of list_delete: where it stops, or that it faults (a
\* node that cannot be read) or never stops (a cycle without the node)
RECURSIVE ListScan(_, _, _, _, _)
ListScan(m, ptr, prev, node, seen) ==
    IF ptr = NULL \/ ptr = node THEN [end |-> "stop", ptr |-> ptr, prev |-> prev]
    ELSE IF ~Readable(m, ptr) THEN [end |-> "fault", ptr |-> ptr, prev |-> prev]
    ELSE IF ptr \in seen THEN [end |-> "hang", ptr |-> ptr, prev |-> prev]
    ELSE ListScan(m, m.mem[ptr], ptr, node, seen \cup {ptr})

\* [m, r]: the state after, and the value returned
list_delete(m, i, node) ==
    IF m.st # "ok" THEN [m |-> m, r |-> 0]
    ELSE IF i \notin DOMAIN m.nodes THEN [m |-> Fault(m), r |-> 0]
    ELSE LET head == m.nodes[i] IN
    IF head # NULL /\ head = node
    THEN IF ~Readable(m, head) THEN [m |-> Fault(m), r |-> 0]
         ELSE [m |-> [m EXCEPT !.nodes[i] = m.mem[head]], r |-> 1]
    ELSE LET w == ListScan(m, head, NULL, node, {}) IN
         IF w.end = "fault" THEN [m |-> Fault(m), r |-> 0]
         ELSE IF w.end = "hang" THEN [m |-> Hang(m), r |-> 0]
         ELSE IF w.ptr = NULL THEN [m |-> m, r |-> 0]
         ELSE IF ~Readable(m, w.ptr) THEN [m |-> Fault(m), r |-> 0]
         ELSE [m |-> WriteWord(m, w.prev, m.mem[w.ptr]), r |-> 1]

----------------------------------------------------------------------------
(* src/bit.h: the bit macros on the bitset *)

bit_check(m, b) == m.bits[b] = 1

bit_switch(m, b) ==
    IF m.st # "ok" THEN m
    ELSE IF b \notin DOMAIN m.bits THEN Fault(m)
    ELSE [m EXCEPT !.bits[b] = 1 - m.bits[b]]

----------------------------------------------------------------------------
(* src/buddy_allocator.h *)

\* sizeof(struct buddy_block_prefix) on LP64: k at 0, ptr at 8
PrefixPtrOffset == PtrSize

\* a translation that picks the order one finer: a block of half the size
IndexOneFiner(nbytes, k) ==
    LET ceil == IF BitAnd(nbytes, nbytes - 1) # 0 THEN pow2_roundup(nbytes)
                ELSE nbytes
    IN  ((k - trailing_zeros_count(ceil)) + 1) % 256

buddy_nbytes_query_to_index(nbytes, k) ==
    LET ceil == IF BitAnd(nbytes, nbytes - 1) # 0 THEN pow2_roundup(nbytes)
                ELSE nbytes
    IN  (k - trailing_zeros_count(ceil)) % 256

\* the index returned, or -1; OutOfBounds when the scan reads past nodes[]
OutOfBounds == 0 - 2

RECURSIVE FirstSplittable(_, _, _)
FirstSplittable(req, nodes, i) ==
    IF i > req THEN 0 - 1
    ELSE IF (req - i) \notin DOMAIN nodes THEN OutOfBounds
    ELSE IF nodes[req - i] # NULL THEN req - i
    ELSE FirstSplittable(req, nodes, i + 1)

\* a search that never finds a block to split
NoSplittableNode(req, nodes) == 0 - 1

buddy_first_splittable_node_index(req, nodes) == FirstSplittable(req, nodes, 1)

\* (int)(mult * offset + ((1 << k) - 1)) with mult = 1 / (1 << (max_k - k)):
\* the sum is exact in a double, the conversion truncates
buddy_block_index(k, max_k, offset) ==
    IF offset < 0 THEN 0 - 1
    ELSE (offset \div Pow2(max_k - k)) + (Pow2(k) - 1)

\* a bit position that drops the remainder: block_index / 2
BitPositionHalved(k, max_k, offset) ==
    LET block_index == buddy_block_index(k, max_k, offset) IN
    IF block_index < 0 THEN 0 - 1
    ELSE block_index \div 2

buddy_bit_position(k, max_k, offset) ==
    LET block_index == buddy_block_index(k, max_k, offset) IN
    IF block_index < 0 THEN 0 - 1
    ELSE (block_index \div 2) + (block_index % 2)

\* the shifts of buddy_block_index are defined
BitPositionDefined(k, max_k) == ShiftOK(max_k - k) /\ ShiftOK(k)

buddy_bit_update(m, k, ptr) ==
    IF m.st # "ok" THEN m
    ELSE IF ~BitPositionDefined(k, m.k) THEN Fault(m)
    ELSE bit_switch(m, buddy_bit_position(k, m.k, ptr - m.data))

\* a split that pushes the upper half first: the lower half is the head
NodeUpdateLowerHalf(m, k, ptr, split) ==
    IF m.st # "ok" THEN m
    ELSE LET m1 == list_pop(m, k) IN
         IF HasFlag(split, BUDDY_SPLIT)
         THEN IF ~ShiftOK(m.k - k) THEN Fault(m1)
              ELSE LET offset == Pow2(m.k - k) \div 2 IN
                   list_push(list_push(m1, k + 1, ptr + offset), k + 1, ptr)
         ELSE m1

buddy_node_update(m, k, ptr, split) ==
    IF m.st # "ok" THEN m
    ELSE LET m1 == list_pop(m, k) IN
         IF HasFlag(split, BUDDY_SPLIT)
         THEN IF ~ShiftOK(m.k - k) THEN Fault(m1)
              ELSE LET offset == Pow2(m.k - k) \div 2 IN
                   list_push(list_push(m1, k + 1, ptr), k + 1, ptr + offset)
         ELSE m1

buddy_update(m, index, ptr, split) ==
    buddy_bit_update(buddy_node_update(m, index, ptr, split), index, ptr)

\* the for loop of buddy_block_reserve
RECURSIVE ReserveLoop(_, _, _, _)
ReserveLoop(m, i, index, res) ==
    IF m.st # "ok" \/ i >= index THEN m
    ELSE LET ptr == m.nodes[i] IN
         ReserveLoop(buddy_bit_update(buddy_node_update(m, i, ptr, res), i, ptr),
                     i + 1, index, res)

\* [m, res]: the state after and *res after; the value returned is not used
buddy_block_reserve(m, index, res) ==
    LET node_index == buddy_first_splittable_node_index(index, m.nodes) IN
    IF node_index = OutOfBounds THEN [m |-> Fault(m), res |-> res]
    ELSE IF node_index = 0 - 1 THEN [m |-> m, res |-> res]
    ELSE [m |-> ReserveLoop(m, node_index, index, res),
          res |-> BitOr(res - BitAnd(res, BUDDY_SPLIT), BUDDY_NOSPLIT)]

\* A - 1 + sizeof(struct buddy_block_prefix)
PrefixReserve(m) == (m.alignment - 1) + PrefixSize

\* m[-1].k = k; m[-1].ptr = ptr, for m = (struct buddy_block_prefix *)ptr_1
WritePrefix(m, ptr_1, k, ptr) ==
    WriteWord(WriteByte(m, ptr_1 - PrefixSize, k),
              (ptr_1 - PrefixSize) + PrefixPtrOffset, ptr)

\* a buddy_alloc without its test for a request of 0 bytes
NeverZeroRequest(nbytes) == FALSE

\* if (nbytes == 0) return NULL;
IsZeroRequest(nbytes) == nbytes = 0

\* ptr_0 = b->nodes[index].head and what follows it: the block is taken
\* off its list, its bit toggled, the prefix written below ptr_1
AllocTake(m, res, offset, index, ptr_0) ==
    LET ptr_1 == AlignDown(ptr_0 + offset, m.alignment) IN
    [m |-> WritePrefix(buddy_bit_update(buddy_node_update(m, index, ptr_0, res),
                                        index, ptr_0),
                       ptr_1, index, ptr_0),
     ret |-> ptr_1, index |-> index, ptr_0 |-> ptr_0]

\* r is the state and res after the reservation
AllocFrom(r, offset, index) ==
    AllocTake(r.m, r.res, offset, index, r.m.nodes[index])

\* [m, ret, index, ptr_0]: the state after and the pointer returned, with
\* the order index and the block the call reserved
buddy_alloc(m, nbytes) ==
    IF IsZeroRequest(nbytes) THEN [m |-> m, ret |-> NULL, index |-> 0, ptr_0 |-> NULL]
    ELSE
    LET offset == PrefixReserve(m)
        index  == buddy_nbytes_query_to_index(nbytes + offset, m.k)
    IN
    IF index \notin DOMAIN m.nodes
    THEN [m |-> Fault(m), ret |-> NULL, index |-> index, ptr_0 |-> NULL]
    ELSE
    LET res == IF m.nodes[index] = NULL THEN BUDDY_SPLIT ELSE BUDDY_NOSPLIT IN
    AllocFrom(IF HasFlag(res, BUDDY_SPLIT)
              THEN buddy_block_reserve(m, index, res)
              ELSE [m |-> m, res |-> res],
              offset, index)

RECURSIVE buddy_free(_, _)
buddy_free(m, ptr) ==
    IF m.st # "ok" \/ ptr = NULL THEN m
    ELSE IF ~ByteReadable(m, ptr - PrefixSize)
            \/ ~Readable(m, (ptr - PrefixSize) + PrefixPtrOffset) THEN Fault(m)
    ELSE
    LET k      == ReadByte(m, ptr - PrefixSize)
        ptr_0  == m.mem[(ptr - PrefixSize) + PrefixPtrOffset]
        offset == ptr_0 - m.data
    IN
    IF ~BitPositionDefined(k, m.k) THEN Fault(m)
    ELSE
    LET bit_index == buddy_bit_position(k, m.k, offset) IN
    IF bit_index \notin DOMAIN m.bits THEN Fault(m)
    ELSE IF bit_check(m, bit_index) /\ bit_index # 0
    THEN LET buddy_offset == XorPow2(offset, Pow2(m.k - k))
             buddy  == m.data + buddy_offset
             d      == list_delete(m, k, buddy)
             ptr_0b == IF offset > buddy_offset THEN buddy ELSE ptr_0
             ptr_1  == AlignDown(ptr_0b + PrefixReserve(m), m.alignment)
             m1     == WritePrefix(d.m, ptr_1, (k - 1) % 256, ptr_0b)
             m2     == buddy_free(m1, ptr_1)
             m3     == bit_switch(m2, bit_index)
         IN  bit_switch(list_push(m3, k, ptr_0b), bit_index)
    ELSE bit_switch(list_push(m, k, ptr_0), bit_index)

----------------------------------------------------------------------------
(* src/heap.h.  What malloc returns is an input: an address, or NULL.      *)

heap_init(hft) == [hft |-> hft, alloc_count |-> 0]

\* [h, ptr]
heap_alloc(h, nbytes, malloc_ret) ==
    IF nbytes = 0 THEN [h |-> h, ptr |-> NULL]
    ELSE IF malloc_ret = NULL THEN [h |-> h, ptr |-> NULL]
    ELSE [h |-> IF HasFlag(h.hft, HEAP_COUNT)
                THEN [h EXCEPT !.alloc_count = h.alloc_count + 1] ELSE h,
          ptr |-> malloc_ret]

IsPowerOfTwo(a) == a # 0 /\ BitAnd(a, a - 1) = 0

\* nbytes & (alignment - 1) != 0 parses as nbytes & ((alignment - 1) != 0)
SizeCheckFails(nbytes, alignment) ==
    BitAnd(nbytes, IF alignment - 1 # 0 THEN 1 ELSE 0) # 0

\* [h, ptr, raw, size]: the aligned pointer, the raw allocation and its size
heap_aligned_alloc(h, nbytes, alignment, malloc_ret) ==
    IF ~IsPowerOfTwo(alignment) \/ SizeCheckFails(nbytes, alignment)
    THEN [h |-> h, ptr |-> NULL, raw |-> NULL, size |-> 0]
    ELSE LET offset == (alignment - 1) + PtrSize
             a == heap_alloc(h, nbytes + offset, malloc_ret)
         IN  IF a.ptr = NULL THEN [h |-> a.h, ptr |-> NULL, raw |-> NULL, size |-> 0]
             ELSE [h |-> a.h, ptr |-> AlignDown(a.ptr + offset, alignment),
                   raw |-> a.ptr, size |-> nbytes + offset]

\* a heap_free that never counts down
HeapFreeNoCount(h, ptr) == [h |-> h, st |-> "ok", freed |-> ptr]

\* [h, st, freed]: the pointer handed to free(), NULL when none was.
\* The assert ends the program ("abort") when it fails.
heap_free(h, ptr) ==
    IF ptr = NULL THEN [h |-> h, st |-> "ok", freed |-> NULL]
    ELSE IF HasFlag(h.hft, HEAP_COUNT)
    THEN IF h.alloc_count = 0 THEN [h |-> h, st |-> "abort", freed |-> NULL]
         ELSE [h |-> [h EXCEPT !.alloc_count = h.alloc_count - 1],
               st |-> "ok", freed |-> ptr]
    ELSE [h |-> h, st |-> "ok", freed |-> ptr]

\* heap_free(h, ((void**)ptr)[-1]); slots maps the readable words to
\* their contents
heap_aligned_free(h, slots, ptr) ==
    IF (ptr - PtrSize) \notin DOMAIN slots
    THEN [h |-> h, st |-> "fault", freed |-> NULL]
    ELSE heap_free(h, slots[ptr - PtrSize])

\* heap_term only prints: [h, st]
heap_term(h) == [h |-> h, st |-> "ok"]

----------------------------------------------------------------------------
(* buddy_heap_init.  malloc_bits and malloc_data are what malloc returns   *)
(* for the two allocations; junk is the set of bits that are 1 in the      *)
(* memory malloc hands out for the bitset (init never clears it; the heap  *)
(* does when it has HEAP_CLEAR).  nodes0 is the nodes array as the caller  *)
(* passes it.                                                              *)

NodeIndices == 0 .. (BUDDY_MAX_K - 1)

MetaSize(k) == (bit(k - BUDDY_MIN_K) + (CHAR_BIT - 1)) \div CHAR_BIT

\* the words of the arena
ArenaWords(data, k) == {data + PtrSize * i : i \in 0 .. ((bit(k) \div PtrSize) - 1)}

\* the bits of the uint32_t words that lie inside the bitset's allocation
BitsetBits(a) == 0 .. (32 * (((a.raw + a.size) - a.ptr) \div 4) - 1)

\* struct buddy_heap is a record [h, k, alignment, nodes, bits, data].
\* buddy_heap_init gives [rc, heap, bdy, bits, mem, st, allocs]: the value
\* returned, the heap and the struct after the call, the contents of the
\* bitset and of the arena (when both were allocated), and the raw
\* allocations the call made and did not free.

RawOf(a) == [raw |-> a.raw, size |-> a.size, ptr |-> a.ptr]

\* return -1
InitFail(b, h, allocs) ==
    [rc |-> 0 - 1, heap |-> h, bdy |-> b, bits |-> <<>>, mem |-> <<>>,
     st |-> "ok", allocs |-> allocs]

\* from if (bdy->data == NULL): a is the bitset's allocation, d the arena's
InitData(b2, a, d, junk) ==
    IF d.ptr = NULL THEN InitFail([b2 EXCEPT !.data = NULL], d.h, {RawOf(a)})
    ELSE
    LET clear == HasFlag(d.h.hft, HEAP_CLEAR)
        m0 == [k |-> b2.k, alignment |-> b2.alignment, data |-> d.ptr,
               nodes |-> b2.nodes,
               bits |-> [i \in BitsetBits(a) |->
                           IF ~clear /\ i \in junk THEN 1 ELSE 0],
               mem |-> [w \in ArenaWords(d.ptr, b2.k) |->
                           IF clear THEN 0 ELSE Indeterminate],
               st |-> "ok"]
    IN  \* list_push(&bdy->nodes[0].head, bdy->data); return 0
        [rc |-> 0, heap |-> d.h,
         bdy |-> [b2 EXCEPT !.data = d.ptr, !.nodes = list_push(m0, 0, d.ptr).nodes],
         bits |-> m0.bits,
         mem |-> list_push(m0, 0, d.ptr).mem,
         st |-> list_push(m0, 0, d.ptr).st,
         allocs |-> {RawOf(a), RawOf(d)}]

\* from if (bdy->bits == NULL): a is the bitset's allocation
InitBits(b1, a, malloc_data, junk) ==
    IF a.ptr = NULL THEN InitFail([b1 EXCEPT !.bits = NULL], a.h, {})
    ELSE InitData([b1 EXCEPT !.bits = a.ptr], a,
                  heap_aligned_alloc(a.h, bit(b1.k), b1.alignment, malloc_data),
                  junk)

\* a range test that lets K_min itself through
OrderInRangeClosed(k) == k >= BUDDY_MIN_K /\ k <= BUDDY_MAX_K

\* k > BUDDY_MIN_K && k <= BUDDY_MAX_K
OrderInRange(k) == k > BUDDY_MIN_K /\ k <= BUDDY_MAX_K

\* b0 is the struct as the caller passes it, hp the address of the heap h
buddy_heap_init(b0, h, hp, k, alignment, malloc_bits, malloc_data, junk) ==
    IF ~OrderInRange(k) THEN InitFail(b0, h, {})
    ELSE IF ~IsPowerOfTwo(alignment) THEN InitFail(b0, h, {})
    ELSE InitBits([b0 EXCEPT !.h = hp, !.k = k, !.alignment = alignment],
                  heap_aligned_alloc(h, MetaSize(k), META_ALIGNMENT, malloc_bits),
                  malloc_data, junk)

\* a struct buddy_heap with static storage: all zero
ZeroStruct ==
    [h |-> NULL, k |-> 0, alignment |-> 0, nodes |-> [n \in NodeIndices |-> NULL],
     bits |-> NULL, data |-> NULL]


\* enum block_limits (block.h)
BLOCK_HEAP_MAX == 255

\* a struct block_heap no call has written yet
NoBlockHeap == [block_size |-> 0, nblocks |-> 0, first_free_block |-> 0, data |-> NULL]

\* a struct scratch_heap in zeroed storage
ZeroScratch == [head |-> NULL, tail |-> NULL, mem |-> NULL]

\* [hdr, up, since, before]: the header that defines scratch_alloc, whether
\* scratch_heap_init obtained its arena, the scratch_alloc calls since the
\* last scratch_heap_reset and those between the two resets before
NoLog == [hdr |-> "", up |-> FALSE, since |-> <<>>, before |-> <<>>]

----------------------------------------------------------------------------
(* The state machine: a caller that initialises one buddy heap and then    *)
(* calls buddy_alloc and buddy_free, freeing only pointers it holds.       *)

\* the machine state of the current state
M == [k |-> bdy.k, alignment |-> bdy.alignment, data |-> bdy.data,
      nodes |-> bdy.nodes, bits |-> bitset, mem |-> mem, st |-> st]

Alignments == {8, 32}
MallocAddrs == {4096}
BitsAddrs == {2048}
HeapAddrs == {64}
HeapFlagChoices == {HEAP_COUNT + HEAP_CLEAR, HEAP_COUNT}
JunkChoices == {{}, {3, 7}}

\* A - 1 + sizeof(struct buddy_block_prefix) of the current heap
Reserve == (bdy.alignment - 1) + PrefixSize

\* request sizes: 0, the largest request every block size from 32 bytes up
\* to the arena can hold, the smallest request that needs the whole arena,
\* and the smallest request that no block can hold
ReqSizes ==
    {0} \cup {n \in {bit(j) - Reserve : j \in 5 .. bdy.k} : n > 0}
        \cup {(bit(bdy.k - 1) - Reserve) + 1, (bit(bdy.k) - Reserve) + 1}

NoOp == [name |-> "init", arg |-> 0, ret |-> NULL, index |-> 0, ptr_0 |-> NULL]

\* the states buddy_heap_init leaves when it returns 0, for a heap made by
\* heap_init and a struct buddy_heap with static storage
Init ==
    \E hft \in HeapFlagChoices, k \in (BUDDY_MIN_K + 1) .. MaxK, a \in Alignments,
       hp \in HeapAddrs, rb \in BitsAddrs, r \in MallocAddrs, junk \in JunkChoices :
        \E i \in {buddy_heap_init(ZeroStruct, heap_init(hft), hp, k, a, rb, r, junk)} :
            /\ i.rc = 0
            /\ HasFlag(hft, HEAP_CLEAR) => junk = {}
            /\ heap = i.heap
            /\ bdy = i.bdy
            /\ bitset = i.bits
            /\ mem = i.mem
            /\ st = i.st
            /\ live = {}
            /\ op = NoOp
            /\ calls = 0
            /\ blk = NoBlockHeap
            /\ cells = {}
            /\ scr = ZeroScratch
            /\ log = NoLog

\* the number of live allocations equal to e but for their copy number
Copies(e) == Cardinality({x \in live : x.p = e.p /\ x.k = e.k /\ x.base = e.base})

\* a call is made: the model stops after MaxCalls calls
Call == calls < MaxCalls /\ calls' = calls + 1

\* a call of buddy_alloc(b, n) and what the caller keeps of it
AllocCall(n) ==
    /\ st = "ok"
    /\ \E r \in {buddy_alloc(M, n)} :
        /\ bdy' = [bdy EXCEPT !.nodes = r.m.nodes]
        /\ bitset' = r.m.bits
        /\ mem' = r.m.mem
        /\ st' = r.m.st
        /\ op' = [name |-> "alloc", arg |-> n,
                  ret |-> IF r.m.st = "ok" THEN r.ret ELSE NULL,
                  index |-> r.index, ptr_0 |-> r.ptr_0]
        /\ live' = IF r.m.st = "ok" /\ r.ret # NULL
                   THEN live \cup {[p |-> r.ret, k |-> r.index, base |-> r.ptr_0,
                                    c |-> Copies([p |-> r.ret, k |-> r.index,
                                                  base |-> r.ptr_0])]}
                   ELSE live
    /\ UNCHANGED heap

Alloc(n) ==
    /\ Call
    /\ UNCHANGED <<blk, cells, scr, log>>
    /\ Cardinality(live) < MaxLive
    /\ AllocCall(n)

Free(e) ==
    /\ st = "ok"
    /\ Call
    /\ UNCHANGED <<blk, cells, scr, log>>
    /\ e \in live
    /\ \E m1 \in {buddy_free(M, e.p)} :
        /\ bdy' = [bdy EXCEPT !.nodes = m1.nodes]
        /\ bitset' = m1.bits
        /\ mem' = m1.mem
        /\ st' = m1.st
    /\ op' = [name |-> "free", arg |-> e.p, ret |-> NULL, index |-> e.k, ptr_0 |-> e.base]
    /\ live' = live \ {e}
    /\ UNCHANGED heap

FreeNull ==
    /\ st = "ok"
    /\ Call
    /\ UNCHANGED <<blk, cells, scr, log>>
    /\ \E m1 \in {buddy_free(M, NULL)} :
        /\ bdy' = [bdy EXCEPT !.nodes = m1.nodes]
        /\ bitset' = m1.bits
        /\ mem' = m1.mem
        /\ st' = m1.st
    /\ op' = [name |-> "free", arg |-> NULL, ret |-> NULL, index |-> 0, ptr_0 |-> NULL]
    /\ UNCHANGED <<heap, live>>

Next ==
    \/ \E n \in ReqSizes : Alloc(n)
    \/ \E e \in live : Free(e)
    \/ FreeNull

Spec == Init /\ [][Next]_vars

----------------------------------------------------------------------------
(* A caller that only allocates, on a fresh heap with K = 10 and A = 8:    *)
(* requests of 64 bytes, and of 41 bytes, the largest a 64-byte block      *)
(* holds.                                                                  *)

FillSizes == {41, 64}

InitFill == Init /\ bdy.k = 10 /\ bdy.alignment = 8

Fill(n) ==
    /\ calls < MaxFill
    /\ calls' = calls + 1
    /\ AllocCall(n)
    /\ UNCHANGED <<blk, cells, scr, log>>

NextFill == \E n \in FillSizes : Fill(n)

SpecFill == InitFill /\ [][NextFill]_vars

----------------------------------------------------------------------------
(* A client of the backing heap: it calls heap_alloc, heap_aligned_alloc,  *)
(* heap_free, heap_aligned_free and heap_term, frees only pointers it      *)
(* holds, each with the function that matches its allocation, and          *)
(* initialises one buddy heap over the same heap.  Here live is the set of *)
(* raw allocations malloc has handed out and free has not taken back,      *)
(* [raw, size, ptr, n, al, owner]: ptr is what the caller was given, al    *)
(* the alignment asked (0 for heap_alloc), owner 0 for the client and 1    *)
(* for the buddy heap.  mem holds the slots below the aligned pointers     *)
(* and, once the buddy heap is initialised, the arena.                     *)

HeapFlagSets ==
    {HEAP_COUNT, HEAP_COUNT + HEAP_CLEAR, HEAP_COUNT + HEAP_DEBUG, HEAP_DEBUG}
HeapSizes == {0, 3, 8}
HeapAlignments == {0, 4, 12, 32}
InitAlignments == {0, 8, 12, 32}
InitKs == {BUDDY_MIN_K, BUDDY_MIN_K + 1, MaxK - 1, MaxK, BUDDY_MAX_K + 1}

\* a struct buddy_heap with automatic storage: whatever was there
JunkStruct ==
    [h |-> 8, k |-> 3, alignment |-> 5,
     nodes |-> [n \in NodeIndices |-> IF n \in {0, 2} THEN 24 ELSE NULL],
     bits |-> 16, data |-> 16]

PriorStructs == {ZeroStruct, JunkStruct}

\* what malloc returns when it succeeds: the j-th allocation of the call
\* in progress, 16-byte aligned and apart from every other
MallocAddr(j) == (4096 * ((2 * calls) + j + 1)) + 16

MallocResults(j) == {NULL, MallocAddr(j)}

\* the last call: arg is the pointer passed to a free, or what malloc had
\* to give to an allocation; before is alloc_count before the call
HeapOp(name, k, n, al, arg, ret) ==
    [name |-> name, k |-> k, n |-> n, al |-> al, arg |-> arg, ret |-> ret,
     before |-> heap.alloc_count]

InitHeap ==
    \E hft \in HeapFlagSets, b0 \in PriorStructs :
        /\ heap = heap_init(hft)
        /\ bdy = b0
        /\ bitset = <<>>
        /\ mem = <<>>
        /\ st = "ok"
        /\ live = {}
        /\ op = [name |-> "heap_init", k |-> 0, n |-> 0, al |-> 0, arg |-> NULL,
                 ret |-> NULL, before |-> 0]
        /\ calls = 0
        /\ blk = NoBlockHeap
        /\ cells = {}
        /\ scr = ZeroScratch
        /\ log = NoLog

HeapCall == st = "ok" /\ calls < MaxHeapCalls /\ calls' = calls + 1

Without(f, a) == [w \in DOMAIN f \ {a} |-> f[w]]

HeapAlloc(n, mr) ==
    /\ HeapCall
    /\ UNCHANGED <<blk, cells, scr, log>>
    /\ \E r \in {heap_alloc(heap, n, mr)} :
        /\ heap' = r.h
        /\ live' = IF r.ptr = NULL THEN live
                   ELSE live \cup {[raw |-> r.ptr, size |-> n, ptr |-> r.ptr,
                                    n |-> n, al |-> 0, owner |-> 0]}
        /\ op' = HeapOp("heap_alloc", 0, n, 0, mr, r.ptr)
    /\ UNCHANGED <<bdy, bitset, mem, st>>

HeapAlignedAlloc(n, al, mr) ==
    /\ HeapCall
    /\ UNCHANGED <<blk, cells, scr, log>>
    /\ \E r \in {heap_aligned_alloc(heap, n, al, mr)} :
        /\ heap' = r.h
        /\ live' = IF r.ptr = NULL THEN live
                   ELSE live \cup {[raw |-> r.raw, size |-> r.size, ptr |-> r.ptr,
                                    n |-> n, al |-> al, owner |-> 0]}
        \* ptr_1[-1] = ptr_0
        /\ mem' = IF r.ptr = NULL THEN mem
                  ELSE ((r.ptr - PtrSize) :> r.raw) @@ mem
        /\ op' = HeapOp("heap_aligned_alloc", 0, n, al, mr, r.ptr)
    /\ UNCHANGED <<bdy, bitset, st>>

\* free(p): p must be a raw allocation that is live
Released(p) == {x \in live : x.raw = p}

HeapFree(e) ==
    /\ HeapCall
    /\ UNCHANGED <<blk, cells, scr, log>>
    /\ e \in live /\ e.owner = 0 /\ e.al = 0
    /\ \E r \in {heap_free(heap, e.ptr)} :
        /\ heap' = r.h
        /\ st' = IF r.st = "ok" /\ r.freed # NULL /\ Released(r.freed) = {}
                 THEN "fault" ELSE r.st
        /\ live' = live \ Released(r.freed)
        /\ op' = HeapOp("heap_free", 0, 0, 0, e.ptr, r.freed)
    /\ UNCHANGED <<bdy, bitset, mem>>

HeapFreeNull ==
    /\ HeapCall
    /\ UNCHANGED <<blk, cells, scr, log>>
    /\ \E r \in {heap_free(heap, NULL)} :
        /\ heap' = r.h
        /\ st' = r.st
        /\ op' = HeapOp("heap_free", 0, 0, 0, NULL, r.freed)
    /\ UNCHANGED <<bdy, bitset, mem, live>>

HeapAlignedFree(e) ==
    /\ HeapCall
    /\ UNCHANGED <<blk, cells, scr, log>>
    /\ e \in live /\ e.owner = 0 /\ e.al # 0
    /\ \E r \in {heap_aligned_free(heap, mem, e.ptr)} :
        /\ heap' = r.h
        /\ st' = IF r.st = "ok" /\ r.freed # NULL /\ Released(r.freed) = {}
                 THEN "fault" ELSE r.st
        /\ live' = live \ Released(r.freed)
        /\ mem' = IF r.freed = NULL THEN mem ELSE Without(mem, e.ptr - PtrSize)
        /\ op' = HeapOp("heap_aligned_free", 0, 0, e.al, e.ptr, r.freed)
    /\ UNCHANGED <<bdy, bitset>>

HeapTerm ==
    /\ HeapCall
    /\ UNCHANGED <<blk, cells, scr, log>>
    /\ \E r \in {heap_term(heap)} :
        /\ heap' = r.h
        /\ st' = r.st
    /\ op' = HeapOp("heap_term", 0, 0, 0, NULL, NULL)
    /\ UNCHANGED <<bdy, bitset, mem, live>>

\* the slot below an aligned pointer
SlotOf(x) == (x.ptr - PtrSize) :> x.raw

RECURSIVE SlotsOf(_)
SlotsOf(xs) ==
    IF xs = {} THEN <<>>
    ELSE LET x == CHOOSE y \in xs : TRUE IN SlotOf(x) @@ SlotsOf(xs \ {x})

\* buddy_heap_init(&bdy, &heap, k, a), once, or again after a call that
\* acquired nothing
BuddyInit(k, a, mb, md, junk) ==
    /\ HeapCall
    /\ UNCHANGED <<blk, cells, scr, log>>
    /\ \A x \in live : x.owner = 0
    /\ HasFlag(heap.hft, HEAP_CLEAR) => junk = {}
    /\ \E hp \in HeapAddrs :
       \E i \in {buddy_heap_init(bdy, heap, hp, k, a, mb, md, junk)} :
        /\ heap' = i.heap
        /\ bdy' = i.bdy
        /\ bitset' = i.bits
        /\ mem' = (i.mem @@ SlotsOf(i.allocs)) @@ mem
        /\ st' = i.st
        /\ live' = live \cup {[raw |-> x.raw, size |-> x.size, ptr |-> x.ptr,
                                n |-> 0, al |-> 1, owner |-> 1] : x \in i.allocs}
        \* n: how many of the two malloc calls would succeed
        /\ op' = HeapOp("buddy_heap_init", k, Cardinality({mb, md} \ {NULL}), a, NULL, i.rc)

NextHeap ==
    \/ \E n \in HeapSizes, mr \in MallocResults(0) : HeapAlloc(n, mr)
    \/ \E n \in HeapSizes, al \in HeapAlignments, mr \in MallocResults(0) :
           HeapAlignedAlloc(n, al, mr)
    \/ \E e \in live : HeapFree(e)
    \/ HeapFreeNull
    \/ \E e \in live : HeapAlignedFree(e)
    \/ HeapTerm

SpecHeap == InitHeap /\ [][NextHeap]_vars

\* the client that allocates from the heap and initialises the buddy heap
NextInit ==
    \/ \E n \in HeapSizes, mr \in MallocResults(0) : HeapAlloc(n, mr)
    \/ \E k \in InitKs, a \in InitAlignments, mb \in MallocResults(0),
          md \in MallocResults(1), junk \in JunkChoices :
           BuddyInit(k, a, mb, md, junk)

SpecInit == InitHeap /\ [][NextInit]_vars

----------------------------------------------------------------------------
(***************************************************************************)
(* block.h.  mem maps the address of a cell's first byte to the byte       *)
(* stored there (and, as in heap.h, the slot below the array to the raw    *)
(* pointer).  A store through NULL ends the program ("fault"); a byte that *)
(* no call has written reads as any of IndeterminateBytes.                 *)
(***************************************************************************)
MaxBlockCalls == 5

Uint8(x) == x % 256

IndeterminateBytes == {0, BLOCK_HEAP_MAX}

Byte(m, a) == IF a \in DOMAIN m THEN {m[a]} ELSE IndeterminateBytes

\* The recursion of block_heap_reset, unrolled: call j (from 0) decrements
\* n to n - 1 - j (as a uint8_t, so n = 0 makes 256 calls), writes
\* BLOCK_HEAP_MAX - (n - 1 - j) into the byte at ptr + j * nbytes and stops
\* when the decremented n is 0.  A byte written twice keeps the last write.
ResetCalls(n) == IF n = 0 THEN 256 ELSE n

\* a reset that decrements n after the store, not before
ResetValuePostDecrement(n, j) == Uint8(BLOCK_HEAP_MAX - Uint8(ResetCalls(n) - j))

ResetValue(n, j) == Uint8(BLOCK_HEAP_MAX - Uint8(ResetCalls(n) - 1 - j))

LastWrite(a, ptr, nbytes, n) ==
    CHOOSE j \in 0 .. (ResetCalls(n) - 1) :
        /\ a = ptr + (j * nbytes)
        /\ \A i \in (j + 1) .. (ResetCalls(n) - 1) : a # ptr + (i * nbytes)

block_heap_reset(m, ptr, nbytes, n) ==
    [a \in {ptr + (j * nbytes) : j \in 0 .. (ResetCalls(n) - 1)} |->
        ResetValue(n, LastWrite(a, ptr, nbytes, n))] @@ m

\* block_heap_init once heap_aligned_alloc has returned r
BlockInitWith(r, m, nbytes) ==
    [h |-> r.h,
     b |-> [block_size |-> nbytes, nblocks |-> BLOCK_HEAP_MAX,
            first_free_block |-> 0, data |-> r.ptr],
     mem |-> IF r.ptr = NULL THEN m
             ELSE block_heap_reset(((r.ptr - PtrSize) :> r.raw) @@ m,
                                   r.ptr, nbytes, BLOCK_HEAP_MAX),
     st |-> IF r.ptr = NULL THEN "fault" ELSE "ok",
     raw |-> r.raw, size |-> r.size]

\* [h, b, mem, st, raw, size]
block_heap_init(h, m, nbytes, alignment, malloc_ret) ==
    BlockInitWith(heap_aligned_alloc(h, nbytes * BLOCK_HEAP_MAX, alignment,
                                     malloc_ret), m, nbytes)

\* the cell first_free_block names
FirstFreeCell(a) == a.data + (a.block_size * a.first_free_block)

\* [a, ptr]; byte is what the first byte of the cell holds
block_alloc(a, byte) ==
    IF a.nblocks = BLOCK_HEAP_MAX THEN [a |-> a, ptr |-> NULL]
    ELSE [a |-> [a EXCEPT !.first_free_block = byte,
                          !.nblocks = Uint8(a.nblocks - 1)],
          ptr |-> FirstFreeCell(a)]

\* a validation that lets every pointer through
AlwaysValid(ptr, head, nblocks, block_size) == 1

block_is_valid(ptr, head, nblocks, block_size) ==
    IF /\ ptr >= head
       /\ ptr < head + (BLOCK_HEAP_MAX * block_size)
       /\ (ptr - head) % block_size = 0
    THEN 1 ELSE 0

\* [a, mem]
block_free(al, m, ptr) ==
    IF ptr = NULL THEN [a |-> al, mem |-> m]
    ELSE IF block_is_valid(ptr, al.data, al.nblocks, al.block_size) = 0
    THEN [a |-> al, mem |-> m]
    ELSE [a |-> [al EXCEPT !.first_free_block =
                               Uint8((ptr - al.data) \div al.block_size),
                           !.nblocks = Uint8(al.nblocks - 1)],
          mem |-> (ptr :> Uint8(al.first_free_block)) @@ m]

\* [h, st, freed]
block_heap_term(b, h, m) == heap_aligned_free(h, m, b.data)

(***************************************************************************)
(* The block heap and its client: block_heap_init once on a heap that      *)
(* heap_init has set up, then block_alloc and block_free in any order, and *)
(* block_heap_term last.  block_free is handed NULL, cells (live or not),  *)
(* and addresses that are no cell's.                                       *)
(***************************************************************************)
BlockSizes == {2, 3}
BlockAlignments == {1, 8}
FreeCells == {0, BLOCK_HEAP_MAX - 1}

InitBlock ==
    \E hft \in HeapFlagChoices :
        /\ heap = heap_init(hft)
        /\ bdy = ZeroStruct
        /\ bitset = <<>>
        /\ mem = <<>>
        /\ st = "ok"
        /\ live = {}
        /\ op = [name |-> "heap_init", k |-> 0, n |-> 0, al |-> 0, arg |-> NULL,
                 ret |-> NULL, before |-> 0]
        /\ calls = 0
        /\ blk = NoBlockHeap
        /\ cells = {}
        /\ scr = ZeroScratch
        /\ log = NoLog

BlockCall == st = "ok" /\ calls < MaxBlockCalls /\ calls' = calls + 1

\* block_heap_init has run and block_heap_term has not
BlockHeapUp == op.name \notin {"heap_init", "block_heap_term"}

BlockHeapInit(nbytes, al, mr) ==
    /\ BlockCall
    /\ UNCHANGED <<scr, log>>
    /\ op.name = "heap_init"
    /\ \E i \in {block_heap_init(heap, mem, nbytes, al, mr)} :
        /\ heap' = i.h
        /\ blk' = i.b
        /\ mem' = i.mem
        /\ st' = i.st
        /\ live' = IF i.raw = NULL THEN live
                   ELSE live \cup {[raw |-> i.raw, size |-> i.size, ptr |-> i.b.data,
                                    n |-> nbytes * BLOCK_HEAP_MAX, al |-> al,
                                    owner |-> 2]}
        /\ op' = HeapOp("block_heap_init", 0, nbytes, al, mr, i.b.data)
    /\ cells' = {}
    /\ UNCHANGED <<bdy, bitset>>

BlockAlloc ==
    /\ BlockCall
    /\ UNCHANGED <<scr, log>>
    /\ BlockHeapUp
    /\ \E byte \in Byte(mem, FirstFreeCell(blk)) :
        \E r \in {block_alloc(blk, byte)} :
            /\ blk' = r.a
            /\ cells' = IF r.ptr = NULL THEN cells ELSE cells \cup {r.ptr}
            /\ op' = HeapOp("block_alloc", 0, 0, 0, NULL, r.ptr)
    /\ UNCHANGED <<heap, bdy, bitset, mem, st, live>>

FreePtrs ==
    {NULL, blk.data - blk.block_size, blk.data + 1,
     blk.data + (BLOCK_HEAP_MAX * blk.block_size)}
    \cup {blk.data + (i * blk.block_size) : i \in FreeCells}
    \cup cells

BlockFree(ptr) ==
    /\ BlockCall
    /\ UNCHANGED <<scr, log>>
    /\ BlockHeapUp
    /\ \E r \in {block_free(blk, mem, ptr)} :
        /\ blk' = r.a
        /\ mem' = r.mem
        /\ cells' = IF r.a = blk THEN cells ELSE cells \ {ptr}
    /\ op' = HeapOp("block_free", 0, 0, 0, ptr, NULL)
    /\ UNCHANGED <<heap, bdy, bitset, st, live>>

BlockHeapTerm ==
    /\ BlockCall
    /\ UNCHANGED <<scr, log>>
    /\ BlockHeapUp
    /\ \E r \in {block_heap_term(blk, heap, mem)} :
        /\ heap' = r.h
        /\ st' = IF r.st = "ok" /\ r.freed # NULL /\ Released(r.freed) = {}
                 THEN "fault" ELSE r.st
        /\ live' = live \ Released(r.freed)
        /\ op' = HeapOp("block_heap_term", 0, 0, 0, blk.data, r.freed)
    /\ UNCHANGED <<bdy, bitset, mem, blk, cells>>

NextBlock ==
    \/ \E nbytes \in BlockSizes, al \in BlockAlignments, mr \in MallocResults(0) :
           BlockHeapInit(nbytes, al, mr)
    \/ BlockAlloc
    \/ \E ptr \in FreePtrs : BlockFree(ptr)
    \/ BlockHeapTerm

SpecBlock == InitBlock /\ [][NextBlock]_vars

----------------------------------------------------------------------------
(***************************************************************************)
(* The scratch heap: scratch_allocator.h (src/unnamed/part_003) and the    *)
(* earlier scratch.h, which has no scratch_heap_reset and always reserves  *)
(* alignment - 1 bytes of padding.  size_t and uintptr_t values are kept   *)
(* as residues modulo 2^64 written in two's complement, so SIZE_MAX is -1, *)
(* addition is addition, and only the unsigned comparison needs care.      *)
(***************************************************************************)
MaxScratchCalls == 6

\* a > b for two uintptr_t
UGt(a, b) == IF (a < 0) = (b < 0) THEN a > b ELSE a < 0

\* [scr, h, raw, size] once heap_aligned_alloc has returned r
ScratchInitWith(s, r, nbytes) ==
    [scr |-> IF r.ptr = NULL THEN [s EXCEPT !.mem = NULL]
             ELSE [head |-> r.ptr, tail |-> r.ptr + nbytes, mem |-> r.ptr],
     h |-> r.h, raw |-> r.raw, size |-> r.size]

scratch_heap_init(s, h, nbytes, alignment, malloc_ret) ==
    IF nbytes = 0 THEN [scr |-> s, h |-> h, raw |-> NULL, size |-> 0]
    ELSE ScratchInitWith(s, heap_aligned_alloc(h, nbytes, alignment, malloc_ret),
                         nbytes)

\* scratch_alloc of scratch_allocator.h once alloc is known: [scr, ptr]
ScratchTake(s, nbytes, alignment, alloc) ==
    IF UGt(s.head + alloc, s.tail) THEN [scr |-> s, ptr |-> NULL]
    ELSE [scr |-> [s EXCEPT !.head = s.head + alloc],
          ptr |-> IF UGt(alloc, nbytes)
                  THEN AlignDown(s.head + (alignment - 1), alignment)
                  ELSE s.head]

scratch_alloc(s, nbytes, alignment) ==
    IF ~IsPowerOfTwo(alignment) THEN [scr |-> s, ptr |-> NULL]
    ELSE ScratchTake(s, nbytes, alignment,
                     IF s.head % alignment = 0 THEN nbytes
                     ELSE nbytes + alignment - 1)

\* scratch_alloc of scratch.h
scratch_h_alloc(s, nbytes, alignment) ==
    IF ~IsPowerOfTwo(alignment) THEN [scr |-> s, ptr |-> NULL]
    ELSE IF UGt(s.head + (nbytes + alignment - 1), s.tail)
    THEN [scr |-> s, ptr |-> NULL]
    ELSE [scr |-> [s EXCEPT !.head = s.head + (nbytes + alignment - 1)],
          ptr |-> AlignDown(s.head + (alignment - 1), alignment)]

\* a reset that leaves head where it is
ScratchResetKeepsHead(s) == s

scratch_heap_reset(s) == [s EXCEPT !.head = s.mem]

\* [h, st, freed]
scratch_heap_term(s, h, m) == heap_aligned_free(h, m, s.mem)

ScratchHeaders == {"scratch_allocator.h", "scratch.h"}
ArenaSizes == {0, 16}
ArenaAlignments == {8}
ScratchSizes == {3, 8, 0 - 1}
ScratchAlignments == {0, 1, 4}

InitScratch ==
    \E hft \in HeapFlagChoices, hdr \in ScratchHeaders :
        /\ heap = heap_init(hft)
        /\ bdy = ZeroStruct
        /\ bitset = <<>>
        /\ mem = <<>>
        /\ st = "ok"
        /\ live = {}
        /\ op = [name |-> "heap_init", k |-> 0, n |-> 0, al |-> 0, arg |-> NULL,
                 ret |-> NULL, before |-> 0]
        /\ calls = 0
        /\ blk = NoBlockHeap
        /\ cells = {}
        /\ scr = ZeroScratch
        /\ log = [NoLog EXCEPT !.hdr = hdr]

ScratchCall ==
    /\ st = "ok" /\ calls < MaxScratchCalls /\ calls' = calls + 1
    /\ UNCHANGED <<bdy, bitset, blk, cells>>

ScratchHeapInit(nbytes, al, mr) ==
    /\ ScratchCall
    /\ op.name = "heap_init"
    /\ \E i \in {scratch_heap_init(scr, heap, nbytes, al, mr)} :
        /\ heap' = i.h
        /\ scr' = i.scr
        /\ mem' = IF i.raw = NULL THEN mem
                  ELSE ((i.scr.mem - PtrSize) :> i.raw) @@ mem
        /\ live' = IF i.raw = NULL THEN live
                   ELSE live \cup {[raw |-> i.raw, size |-> i.size, ptr |-> i.scr.mem,
                                    n |-> nbytes, al |-> al, owner |-> 3]}
        /\ log' = [log EXCEPT !.up = (i.raw # NULL)]
        /\ op' = HeapOp("scratch_heap_init", 0, nbytes, al, mr, i.scr.mem)
    /\ UNCHANGED st

\* the arena is there and scratch_heap_term has not given it back
ScratchUp == log.up /\ op.name # "scratch_heap_term"

\* op.arg is head before the call; the log keeps request and result
ScratchAlloc(n, al) ==
    /\ ScratchCall
    /\ ScratchUp
    /\ \E r \in {IF log.hdr = "scratch.h" THEN scratch_h_alloc(scr, n, al)
                  ELSE scratch_alloc(scr, n, al)} :
        /\ scr' = r.scr
        /\ log' = [log EXCEPT !.since = Append(@, [n |-> n, al |-> al, ret |-> r.ptr])]
        /\ op' = HeapOp("scratch_alloc", 0, n, al, scr.head, r.ptr)
    /\ UNCHANGED <<heap, mem, st, live>>

ScratchReset ==
    /\ ScratchCall
    /\ ScratchUp
    /\ log.hdr = "scratch_allocator.h"
    /\ scr' = scratch_heap_reset(scr)
    /\ log' = [log EXCEPT !.since = <<>>, !.before = log.since]
    /\ op' = HeapOp("scratch_heap_reset", 0, 0, 0, scr.head, NULL)
    /\ UNCHANGED <<heap, mem, st, live>>

ScratchTerm ==
    /\ ScratchCall
    /\ ScratchUp
    /\ \E r \in {scratch_heap_term(scr, heap, mem)} :
        /\ heap' = r.h
        /\ st' = IF r.st = "ok" /\ r.freed # NULL /\ Released(r.freed) = {}
                 THEN "fault" ELSE r.st
        /\ live' = live \ Released(r.freed)
        /\ op' = HeapOp("scratch_heap_term", 0, 0, 0, scr.mem, r.freed)
    /\ UNCHANGED <<mem, scr, log>>

NextScratch ==
    \/ \E nbytes \in ArenaSizes, al \in ArenaAlignments, mr \in MallocResults(0) :
           ScratchHeapInit(nbytes, al, mr)
    \/ \E n \in ScratchSizes, al \in ScratchAlignments : ScratchAlloc(n, al)
    \/ ScratchReset
    \/ ScratchTerm

SpecScratch == InitScratch /\ [][NextScratch]_vars

----------------------------------------------------------------------------
(* What the properties below speak of.                                     *)

\* the members of a freelist, from ptr on, in list order; the walk ends at
\* NULL, at a word that holds no pointer, or where the list closes on itself
RECURSIVE ListFrom(_, _, _)
ListFrom(m, ptr, seen) ==
    IF ptr = NULL \/ ptr \in seen THEN <<>>
    ELSE IF ~Readable(m, ptr) THEN <<ptr>>
    ELSE <<ptr>> \o ListFrom(m, m.mem[ptr], seen \cup {ptr})

FreeList(m, i) == ListFrom(m, m.nodes[i], {})

FreeListMembers(m, i) == {FreeList(m, i)[j] : j \in 1 .. Len(FreeList(m, i))}

\* every freelist's members, and every pair-status bit
View(m) == [lists |-> [i \in DOMAIN m.nodes |-> FreeListMembers(m, i)],
            bits  |-> m.bits]

\* one free block, the arena; no other; every pair-status bit 0
Canonical(m) ==
    /\ FreeList(m, 0) = <<m.data>>
    /\ \A i \in DOMAIN m.nodes : i # 0 => m.nodes[i] = NULL
    /\ \A b \in DOMAIN m.bits : m.bits[b] = 0

\* the bytes of the block of order index k at base
BlockSize(k) == Pow2(bdy.k - k)

Disjoint(x, y) ==
    x.base + BlockSize(x.k) <= y.base \/ y.base + BlockSize(y.k) <= x.base

\* the heap zeroes what it hands out, so the bitset started all 0
Cleared == HasFlag(heap.hft, HEAP_CLEAR)

\* the order index of a request of n bytes on the current heap
IndexOf(n) == buddy_nbytes_query_to_index(n + Reserve, bdy.k)

\* the order index of the smallest block, 2^K_min bytes
MinBlockIndex == bdy.k - BUDDY_MIN_K

----------------------------------------------------------------------------
(* The properties.                                                         *)

\* C1 (accounting): when every pointer buddy_alloc returned has been freed
\* exactly once, freelist 0 holds exactly the arena base, every other
\* freelist is empty and every pair-status bit is 0.  Stated for heaps
\* whose bitset started all 0.
C1_Accounting ==
    (st = "ok" /\ Cleared /\ live = {}) => Canonical(M)

\* C2 (round trip): in every quiescent state, for every n for which
\* buddy_alloc(n) returns a non-null p, buddy_free(p) right after restores
\* every freelist's members and every pair-status bit.
RoundTrip(m, r) ==
    (r.m.st = "ok" /\ r.ret # NULL) =>
        \E f \in {buddy_free(r.m, r.ret)} : f.st = "ok" /\ View(f) = View(m)

C2_RoundTrip ==
    st = "ok" => \A n \in ReqSizes : RoundTrip(M, buddy_alloc(M, n))

\* C3 (no overlap): any two allocations live at the same time have
\* disjoint blocks [base, base + 2^(K-k)).  Stated for heaps whose bitset
\* started all 0.
C3_NoOverlap ==
    (st = "ok" /\ Cleared) =>
        \A x \in live : \A y \in live : x # y => Disjoint(x, y)

\* C4 (exhaustion): when the freelist of the requested order index and
\* every freelist of a lower index is empty, buddy_alloc returns NULL and
\* changes no freelist and no pair-status bit.
Exhausted(m, index) ==
    index \in 0 .. (m.k - BUDDY_MIN_K) /\ \A j \in 0 .. index : m.nodes[j] = NULL

Refused(m, r) ==
    r.m.st = "ok" /\ r.ret = NULL /\ View(r.m) = View(m)

C4_Exhaustion ==
    st = "ok" =>
        \A n \in ReqSizes :
            (n > 0 /\ Exhausted(M, IndexOf(n))) => Refused(M, buddy_alloc(M, n))

\* C5 (oversize): for every n with n + (A - 1 + sizeof(header)) > 2^K,
\* buddy_alloc(n) returns NULL and changes no freelist and no pair-status
\* bit, and the order index computed stays within 0 .. K - K_min.
C5_Oversize ==
    st = "ok" =>
        \A n \in ReqSizes :
            n + Reserve > Pow2(bdy.k) =>
                /\ IndexOf(n) \in 0 .. MinBlockIndex
                /\ Refused(M, buddy_alloc(M, n))

\* C6 (minimum block): a request n > 0 with n + (A - 1 + sizeof(header))
\* below 2^K_min gets order index K - K_min, and no freelist of a higher
\* index, that is of blocks below 2^K_min bytes, ever holds a block.
C6_MinimumBlock ==
    /\ (op.name = "alloc" /\ op.arg > 0 /\ op.arg + Reserve < Pow2(BUDDY_MIN_K))
            => op.index = MinBlockIndex
    /\ \A i \in DOMAIN bdy.nodes : i > MinBlockIndex => bdy.nodes[i] = NULL

\* C7 (alignment): every non-null pointer buddy_alloc returns is a
\* multiple of the alignment A given at init.
C7_Alignment ==
    (op.name = "alloc" /\ op.ret # NULL) => op.ret % bdy.alignment = 0

\* an allocation was returned whose block base plus the reserve was not
\* aligned: the mask moved the pointer down
C7_Witness ==
    /\ op.name = "alloc" /\ op.ret # NULL
    /\ bdy.alignment = 32
    /\ (op.ptr_0 + Reserve) % bdy.alignment # 0
    /\ op.ret < op.ptr_0 + Reserve

\* C8 (size selection): for n with 2^K_min <= n + (A - 1 + sizeof(header))
\* <= 2^K, a successful buddy_alloc(n) takes a block whose size 2^(K-k) is
\* the smallest power of two that is at least n + A - 1 + sizeof(header),
\* and the header below the pointer and the n bytes from it on lie inside
\* the block.
C8_SizeSelection ==
    (/\ op.name = "alloc" /\ op.ret # NULL
     /\ Pow2(BUDDY_MIN_K) <= op.arg + Reserve
     /\ op.arg + Reserve <= Pow2(bdy.k))
    => /\ op.index \in 0 .. MinBlockIndex
       /\ BlockSize(op.index) >= op.arg + Reserve
       /\ BlockSize(op.index) \div 2 < op.arg + Reserve
       /\ op.ptr_0 <= op.ret - PrefixSize
       /\ op.ret + op.arg <= op.ptr_0 + BlockSize(op.index)

\* a request that is rounded up, to the whole arena, was granted
C8_Witness ==
    /\ op.name = "alloc" /\ op.ret # NULL
    /\ op.arg + Reserve = Pow2(bdy.k - 1) + 1
    /\ op.index = 0

\* C9 (zero request): buddy_alloc(0) returns NULL and changes no freelist
\* and no pair-status bit, whatever the state.
C9_ZeroRequest ==
    [][(op'.name = "alloc" /\ op'.arg = 0)
           => (op'.ret = NULL /\ UNCHANGED <<bdy, bitset, mem, st, live>>)]_vars

\* buddy_alloc(0) was called while blocks were out and lists were split
C9_Witness ==
    /\ op.name = "alloc" /\ op.arg = 0 /\ op.ret = NULL
    /\ live # {}
    /\ \E i \in DOMAIN bdy.nodes : i # 0 /\ bdy.nodes[i] # NULL

\* every call so far asked for 64 bytes: each block out is of order index
\* K - 7, and the last call asked for 64
OnlySixtyFour ==
    op.name = "alloc" /\ op.arg = 64 /\ \A x \in live : x.k = bdy.k - 7

EightGranted ==
    Cardinality(live) = 8 /\ \A x \in live : x.k = bdy.k - 7

SameAfter(f, g) ==
    f.st = "ok" /\ g.st = "ok" /\ View(f) = View(g)

C11_FreeOrder ==
    (st = "ok" /\ Cleared) =>
        \A x \in live : \A y \in live :
            x # y => SameAfter(buddy_free(buddy_free(M, x.p), y.p),
                               buddy_free(buddy_free(M, y.p), x.p))

----------------------------------------------------------------------------
(* buddy_heap_init and the backing heap.                                   *)

PowersOfTwo == {Pow2(i) : i \in 0 .. 30}

ValidOrders == (BUDDY_MIN_K + 1) .. BUDDY_MAX_K

\* the raw allocations the buddy heap made and that are still live
OwnedByBuddy == {x \in live : x.owner = 1}

\* C12 (init rejects bad arguments): buddy_heap_init with K outside
\* (K_min, 28] or with A zero or not a power of two returns -1, allocates
\* nothing from the backing heap and leaves the struct as it was.
C12_RejectInvalid ==
    [][(/\ op'.name = "buddy_heap_init"
        /\ (op'.k \notin ValidOrders \/ op'.al \notin PowersOfTwo))
       => (op'.ret = 0 - 1 /\ UNCHANGED <<heap, bdy, live, mem, bitset, st>>)]_vars

\* an init with a valid K and the alignment 12 was rejected, on a struct
\* holding garbage and a heap holding an allocation
C12_Witness ==
    /\ op.name = "buddy_heap_init" /\ op.k \in ValidOrders /\ op.al = 12
    /\ op.ret = 0 - 1
    /\ bdy = JunkStruct
    /\ live # {}

\* C13 (partial failure): when buddy_heap_init returns -1, the bitset's
\* allocation has been released: the buddy heap holds no allocation and
\* the heap's count of live allocations is what it was before the call.
C13_PartialFailure ==
    (op.name = "buddy_heap_init" /\ op.ret = 0 - 1) =>
        /\ OwnedByBuddy = {}
        /\ heap.alloc_count = op.before

\* C14 (init succeeds otherwise): buddy_heap_init returns -1 only when K
\* is outside (K_min, 28], A is not a non-zero power of two, or malloc
\* returns NULL.
C14_FailsOnlyOnBadInput ==
    (op.name = "buddy_heap_init" /\ op.ret = 0 - 1) =>
        \/ op.k \notin ValidOrders
        \/ op.al \notin PowersOfTwo
        \/ op.n < 2

\* C15 (canonical initial state): right after a successful
\* buddy_heap_init, freelist 0 holds exactly the arena base, every other
\* freelist is empty and every pair-status bit is 0, whatever the heap's
\* flags and whatever the struct held before.
C15_CanonicalInit ==
    (op.name = "buddy_heap_init" /\ op.ret = 0) => Canonical(M)

\* C16 (allocation count): on a heap with HEAP_COUNT, alloc_count is the
\* number of live raw allocations after every call (so a failed or
\* zero-size allocation and heap_free(NULL) leave it alone), and the
\* assertion in heap_free never fails.
C16_CountInvariant ==
    /\ st # "abort"
    /\ HasFlag(heap.hft, HEAP_COUNT) =>
           heap.alloc_count = Cardinality({x.raw : x \in live})

\* an aligned allocation was freed while another allocation stays live
C16_Witness ==
    /\ HasFlag(heap.hft, HEAP_COUNT)
    /\ op.name = "heap_aligned_free" /\ op.ret # NULL
    /\ heap.alloc_count = 1 /\ op.before = 2

\* C17 (teardown): heap_term on a heap with HEAP_COUNT and HEAP_DEBUG whose
\* alloc_count is not 0 does not return normally.
C17_TermPanics ==
    (/\ op.name = "heap_term"
     /\ HasFlag(heap.hft, HEAP_COUNT) /\ HasFlag(heap.hft, HEAP_DEBUG)
     /\ heap.alloc_count # 0)
    => st # "ok"

\* what C18 asks of a live aligned allocation x
AlignedAllocOK(x) ==
    /\ x.ptr % x.al = 0
    /\ x.raw <= x.ptr - PtrSize /\ x.ptr <= x.raw + x.size
    /\ (x.ptr - PtrSize) \in DOMAIN mem /\ mem[x.ptr - PtrSize] = x.raw
    /\ x.ptr + x.n <= x.raw + x.size

AlignedAllocsOK == \A x \in live : x.al # 0 => AlignedAllocOK(x)

\* C18 (aligned allocation): the pointer heap_aligned_alloc(n, A) returns
\* is a multiple of A, the slot just below it holds the raw pointer and
\* lies in the raw allocation, as do the n bytes from it on; and
\* heap_aligned_free of it frees exactly that raw allocation.
C18_AlignedAlloc ==
    [][/\ AlignedAllocsOK'
       /\ op'.name = "heap_aligned_free" =>
              \E e \in live :
                  /\ e.ptr = op'.arg /\ e.al # 0
                  /\ op'.ret = e.raw
                  /\ live' = live \ {e}
                  /\ st' = "ok"]_vars

\* an allocation aligned to 32, which is not where malloc put it, was freed
C18_Witness ==
    /\ op.name = "heap_aligned_free" /\ op.al = 32
    /\ op.ret # NULL /\ op.arg # op.ret + PtrSize
    /\ live # {}

\* C19 (size check): when malloc does not fail, heap_aligned_alloc(n, A)
\* with A a power of two returns NULL exactly when n is not a multiple of
\* A.
C19_SizeCheck ==
    (/\ op.name = "heap_aligned_alloc"
     /\ op.al \in PowersOfTwo /\ op.arg # NULL)
    => ((op.ret = NULL) <=> (op.n % op.al # 0))

----------------------------------------------------------------------------
(***************************************************************************)
(* The block heap.                                                         *)
(***************************************************************************)
\* ptr is the first byte of one of the BLOCK_HEAP_MAX cells of the array
InArray(b, ptr) ==
    \E i \in 0 .. (BLOCK_HEAP_MAX - 1) : ptr = b.data + (i * b.block_size)

\* C20 (capacity): block_alloc on a block heap that block_heap_init has
\* just set up returns a cell of the array, not NULL (the first of the 255
\* allocations a fresh heap grants before the 256th is refused).
C20_Capacity ==
    [][(op.name = "block_heap_init" /\ op'.name = "block_alloc")
       => (op'.ret # NULL /\ InArray(blk', op'.ret))]_vars

NotACell(b, ptr) ==
    \/ ptr = NULL
    \/ ptr < b.data
    \/ ptr >= b.data + (BLOCK_HEAP_MAX * b.block_size)
    \/ (ptr - b.data) % b.block_size # 0

\* C22 (validation): block_free of NULL, of a pointer outside the array or
\* of one that is not at a multiple of block_size from data changes
\* neither first_free_block, nor nblocks, nor any cell's stored index.
C22_FreeValidates ==
    [][(op'.name = "block_free" /\ NotACell(blk, op'.arg))
       => UNCHANGED <<blk, mem, cells>>]_vars

\* a pointer into the middle of a cell was handed to block_free on a heap
\* that has cells out
C22_Witness ==
    /\ op.name = "block_free"
    /\ op.arg > blk.data /\ op.arg < blk.data + (BLOCK_HEAP_MAX * blk.block_size)
    /\ (op.arg - blk.data) % blk.block_size # 0
    /\ cells # {}

\* C23 (initial freelist): after block_heap_init first_free_block is 0 and
\* the first byte of cell i holds i + 1 for every i in 0 .. 254, so the
\* stored indices lead from cell 0 through every cell once to 255.
C23_InitialFreelist ==
    (op.name = "block_heap_init" /\ st = "ok")
    => /\ blk.first_free_block = 0
       /\ \A i \in 0 .. (BLOCK_HEAP_MAX - 1) :
              /\ (blk.data + (i * blk.block_size)) \in DOMAIN mem
              /\ mem[blk.data + (i * blk.block_size)] = i + 1

\* a heap of 3-byte cells has just been set up
C23_Witness ==
    /\ op.name = "block_heap_init" /\ st = "ok"
    /\ blk.block_size = 3 /\ blk.data # NULL

----------------------------------------------------------------------------
(***************************************************************************)
(* The scratch heap.  A size that is negative in two's complement is       *)
(* 2^63 or more: no range of that many bytes lies in an arena.             *)
(***************************************************************************)
RoundUp(x, a) == AlignDown(x + (a - 1), a)

\* the scratch_alloc calls since the last reset that returned a pointer
Granted == {i \in 1 .. Len(log.since) : log.since[i].ret # NULL}

InArena(g) == g.n >= 0 /\ g.ret >= scr.mem /\ g.ret + g.n <= scr.tail

Apart(g, h) == g.ret + g.n <= h.ret \/ h.ret + h.n <= g.ret

\* C24 (scratch safety): base <= head <= tail, and every pointer
\* scratch_alloc(n, A') has returned since the last reset is a multiple of
\* A', has its n bytes inside [base, tail) and apart from the bytes of
\* every other.
C24_ScratchSafety ==
    log.up =>
        /\ scr.mem <= scr.head /\ scr.head <= scr.tail
        /\ \A i \in Granted :
               /\ log.since[i].ret % log.since[i].al = 0
               /\ InArena(log.since[i])
        /\ \A i, j \in Granted : i < j => Apart(log.since[i], log.since[j])

\* round_up(head, A') + n > tail, for head as it was before the call
PastTail(head, n, a) == n < 0 \/ RoundUp(head, a) + n > scr.tail

\* C25 (scratch exhaustion): for a power of two A', scratch_alloc(n, A')
\* returns NULL exactly when round_up(head, A') + n > tail, and a NULL
\* return leaves head unchanged.
C25_ScratchExhaustion ==
    (op.name = "scratch_alloc" /\ IsPowerOfTwo(op.al))
    => /\ (op.ret = NULL) <=> PastTail(op.arg, op.n, op.al)
       /\ op.ret = NULL => scr.head = op.arg

\* C26 (bump step): a successful scratch_alloc(n, A') returns
\* round_up(old head, A') and leaves head at round_up(old head, A') + n.
C26_BumpStep ==
    (op.name = "scratch_alloc" /\ op.ret # NULL)
    => /\ op.ret = RoundUp(op.arg, op.al)
       /\ scr.head = RoundUp(op.arg, op.al) + op.n

\* the first i requests since the last reset are those made, in the same
\* order, after the reset before it (or after scratch_heap_init)
SameRequests(i) ==
    \A j \in 1 .. i : /\ log.since[j].n = log.before[j].n
                      /\ log.since[j].al = log.before[j].al

Replayed ==
    \A i \in 1 .. Len(log.since) :
        (i <= Len(log.before) /\ SameRequests(i))
        => log.since[i].ret = log.before[i].ret

\* C27 (idempotent reset): scratch_heap_reset sets head to the arena's
\* base and changes nothing else, and the same scratch_alloc requests made
\* again after a reset return the same pointers and the same NULLs.
C27_IdempotentReset ==
    [][/\ Replayed'
       /\ op'.name = "scratch_heap_reset" =>
              /\ scr' = [scr EXCEPT !.head = scr.mem]
              /\ UNCHANGED <<heap, mem, live, st>>]_vars

\* two requests, the second one padded, were made again after a reset
C27_Witness ==
    /\ Len(log.since) = 2 /\ Len(log.before) = 2 /\ SameRequests(2)
    /\ log.since[1].ret # NULL /\ log.since[2].ret # NULL
    /\ log.since[2].ret # log.since[1].ret + log.since[1].n

----------------------------------------------------------------------------
(***************************************************************************)
(* buddy_free and the pair-status bits.  A free is described by what the   *)
(* caller holds: the order index k and the base of the block it frees.     *)
(***************************************************************************)
\* the bit of the pair that the block of order index k at offset off is in
PairBit(k, off) == buddy_bit_position(k, bdy.k, off)

\* the offset of the buddy of the block of order index k at offset off
BuddyOf(k, off) == XorPow2(off, BlockSize(k))

\* the block of order index k at offset off is on freelist[k] of m
OnList(m, k, off) == (m.data + off) \in FreeListMembers(m, k)

\* how many times base is on freelist[k] of m
TimesOnList(m, k, base) ==
    Cardinality({j \in 1 .. Len(FreeList(m, k)) : FreeList(m, k)[j] = base})

\* buddy_free is freeing the block of order index k at offset off and
\* will find its pair's bit set
FreeingSet(k, off) ==
    /\ op'.name = "free" /\ op'.arg # NULL
    /\ op'.index = k /\ op'.ptr_0 = bdy.data + off
    /\ k >= 1 /\ PairBit(k, off) \in DOMAIN bitset
    /\ bitset[PairBit(k, off)] = 1

\* as FreeingSet, but it will find the bit clear, or k = 0
FreeingClear(k, off) ==
    /\ op'.name = "free" /\ op'.arg # NULL
    /\ op'.index = k /\ op'.ptr_0 = bdy.data + off
    /\ PairBit(k, off) \in DOMAIN bitset
    /\ (k = 0 \/ bitset[PairBit(k, off)] = 0)

\* the offsets a caller's block can have
Offsets == {j * bit(BUDDY_MIN_K) : j \in 0 .. (bit(bdy.k - BUDDY_MIN_K) - 1)}

\* the smaller of off and its buddy's offset: where the merged block is
MergedOffset(k, off) ==
    IF BuddyOf(k, off) < off THEN BuddyOf(k, off) ELSE off

\* C28 (coalescing free): when buddy_free of the block at (k, off), k >= 1,
\* finds the pair's bit set and returns, the bit is 0, neither the block
\* nor its buddy is on freelist[k], and the merged block is on
\* freelist[k - 1] once unless it was merged further.
C28_Coalesce ==
    [][\A k \in 1 .. MinBlockIndex, off \in Offsets :
          (FreeingSet(k, off) /\ st' = "ok")
          => /\ bitset'[PairBit(k, off)] = 0
             /\ ~OnList(M', k, off)
             /\ ~OnList(M', k, BuddyOf(k, off))
             /\ (k = 1 \/ bitset[PairBit(k - 1, MergedOffset(k, off))] = 0)
                => TimesOnList(M', k - 1, bdy.data + MergedOffset(k, off)) = 1]_vars

\* C29 (plain free): when buddy_free of the block at (k, off) finds the
\* pair's bit clear, or k = 0, it puts base at the head of freelist[k] and
\* toggles that one bit; every other freelist and bit is unchanged.
C29_PlainFree ==
    [][\A k \in 0 .. MinBlockIndex, off \in Offsets :
          (FreeingClear(k, off) /\ st' = "ok")
          => /\ FreeList(M', k) = <<bdy.data + off>> \o FreeList(M, k)
             /\ \A i \in DOMAIN bdy.nodes :
                    i # k => FreeList(M', i) = FreeList(M, i)
             /\ bitset' = [bitset EXCEPT ![PairBit(k, off)] = 1 - @]]_vars

\* the block of order index k at offset off is allocated, or split with a
\* part of it allocated
InUse(k, off) ==
    \E x \in live : /\ x.k >= k
                    /\ x.base - bdy.data >= off
                    /\ x.base - bdy.data < off + BlockSize(k)

\* the offsets of the lower blocks of the pairs of order index k
PairOffsets(k) == {2 * j * BlockSize(k) : j \in 0 .. (bit(k - 1) - 1)}

\* one of the blocks at off and its buddy is on freelist[k], the other in use
OneFreeOneInUse(k, off) ==
    \/ OnList(M, k, off) /\ ~OnList(M, k, BuddyOf(k, off))
          /\ InUse(k, BuddyOf(k, off))
    \/ OnList(M, k, BuddyOf(k, off)) /\ ~OnList(M, k, off)
          /\ InUse(k, off)

\* C30 (pair-status bits): between calls, for every pair of buddies of
\* order index k >= 1, the pair's bit is 1 exactly when one of the two is
\* on freelist[k] and the other is in use; it is 0 otherwise.
C30_PairBits ==
    st = "ok" =>
        \A k \in 1 .. MinBlockIndex : \A off \in PairOffsets(k) :
            (bitset[PairBit(k, off)] = 1) <=> OneFreeOneInUse(k, off)

----------------------------------------------------------------------------
(***************************************************************************)
(* The arena between calls: what is on the freelists and what the callers  *)
(* hold.                                                                   *)
(***************************************************************************)
\* the places on the freelists: <<k, j>> is the j-th node of freelist[k]
FreeEntries ==
    {e \in (DOMAIN bdy.nodes) \X (1 .. bit(MinBlockIndex + 2)) :
        e[2] <= Len(FreeList(M, e[1]))}

\* every block that is free or held, one record per place it is in
Held ==
    {[base |-> FreeList(M, e[1])[e[2]], k |-> e[1], at |-> <<"free", e[1], e[2]>>] :
        e \in FreeEntries}
    \cup {[base |-> x.base, k |-> x.k, at |-> <<"live", x.p, x.c>>] : x \in live}

RECURSIVE SumSizes(_)
SumSizes(S) ==
    IF S = {} THEN 0
    ELSE LET x == CHOOSE y \in S : TRUE IN BlockSize(x.k) + SumSizes(S \ {x})

\* C31 (arena partition): between calls, the blocks on the freelists and
\* the blocks of the live allocations are pairwise disjoint, and their
\* sizes add up to 2^K.
C31_Partition ==
    st = "ok" =>
        /\ \A x \in Held : \A y \in Held : x # y => Disjoint(x, y)
        /\ SumSizes(Held) = Pow2(bdy.k)

\* the node at base is a block of order index k of the arena
WellPlaced(k, base) ==
    /\ base >= bdy.data
    /\ base + BlockSize(k) <= bdy.data + Pow2(bdy.k)
    /\ (base - bdy.data) % BlockSize(k) = 0

\* C32 (freelist well-formedness): between calls, every node on
\* freelist[k] is inside the arena at an offset that is a multiple of
\* 2^(K-k), for every order index k.
C32_WellFormed ==
    st = "ok" =>
        \A k \in DOMAIN bdy.nodes : \A base \in FreeListMembers(M, k) :
            WellPlaced(k, base)

\* the header below the pointer of the live allocation x holds x's order
\* index and base
HeaderIntact(x) ==
    /\ ByteReadable(M, x.p - PrefixSize)
    /\ Readable(M, (x.p - PrefixSize) + PrefixPtrOffset)
    /\ ReadByte(M, x.p - PrefixSize) = x.k
    /\ mem[(x.p - PrefixSize) + PrefixPtrOffset] = x.base

\* C33 (header): between calls, the header below every live pointer holds
\* the order index and the base the block was reserved with, the base is
\* at a multiple of 2^(K-k) from the arena's base and at or below the
\* header; no call on another block changes it.
C33_Header ==
    st = "ok" =>
        \A x \in live :
            /\ HeaderIntact(x)
            /\ (x.base - bdy.data) % BlockSize(x.k) = 0
            /\ x.base <= x.p - PrefixSize

----------------------------------------------------------------------------
(***************************************************************************)
(* buddy_alloc when freelist[k] is empty.                                  *)
(***************************************************************************)
\* the largest order index below k with a node on its freelist, or -1
SplitSource(k) ==
    IF \E j \in 0 .. (k - 1) : bdy.nodes[j] # NULL
    THEN CHOOSE j \in 0 .. (k - 1) :
             /\ bdy.nodes[j] # NULL
             /\ \A i \in (j + 1) .. (k - 1) : bdy.nodes[i] = NULL
    ELSE 0 - 1

\* buddy_alloc is returning a block of order index k that it had to split
\* another block for
AllocSplitting(k) ==
    /\ op'.name = "alloc" /\ op'.arg # 0 /\ op'.index = k
    /\ k \in DOMAIN bdy.nodes /\ bdy.nodes[k] = NULL
    /\ SplitSource(k) >= 0
    /\ st = "ok" /\ st' = "ok"

\* C34 (split source): when freelist[k] is empty, buddy_alloc takes the
\* head of freelist[j], j the largest order index below k with a node on
\* its list, the block it returns is a part of that head, and every
\* freelist of an order index below j is as it was.
C34_SplitSource ==
    [][\A k \in 1 .. (MinBlockIndex + 1) :
          AllocSplitting(k)
          => /\ FreeList(M', SplitSource(k)) = Tail(FreeList(M, SplitSource(k)))
             /\ op'.ptr_0 >= bdy.nodes[SplitSource(k)]
             /\ op'.ptr_0 < bdy.nodes[SplitSource(k)] + BlockSize(SplitSource(k))
             /\ \A i \in 0 .. (SplitSource(k) - 1) :
                    FreeList(M', i) = FreeList(M, i)]_vars

\* the first call after buddy_heap_init is a buddy_alloc that returns a
\* block of order index k
FirstAlloc(k) ==
    /\ calls = 0 /\ st = "ok"
    /\ op'.name = "alloc" /\ op'.arg # 0 /\ op'.index = k /\ st' = "ok"

\* the offset of the last block of order index k of the arena
LastOffset(k) == Pow2(bdy.k) - BlockSize(k)

\* C35 (split on a fresh heap): the first buddy_alloc after init that
\* returns a block of order index k >= 1 leaves freelist[0] empty, one
\* block on each freelist[i] for 1 <= i <= k, the lower half of what was
\* split at i - 1, and nothing on the lists of larger order indices; it
\* returns the block of order index k at the highest offset.
C35_FreshSplit ==
    [][\A k \in 1 .. (MinBlockIndex + 1) :
          FirstAlloc(k)
          => /\ FreeList(M', 0) = <<>>
             /\ \A i \in 1 .. k :
                    FreeList(M', i) = <<bdy.data + (LastOffset(i) - BlockSize(i))>>
             /\ \A i \in DOMAIN bdy.nodes : i > k => FreeList(M', i) = <<>>
             /\ op'.ptr_0 = bdy.data + LastOffset(k)
             /\ op'.ret = AlignDown(op'.ptr_0 + Reserve, bdy.alignment)]_vars

\* the first call was buddy_alloc(b, 41): it split the arena four times
\* and returned the last 64-byte block
C35_Witness ==
    /\ calls = 1 /\ st = "ok"
    /\ op.name = "alloc" /\ op.arg = 41 /\ op.index = 4
    /\ op.ptr_0 = bdy.data + 960
    /\ FreeList(M, 0) = <<>>
    /\ FreeList(M, 4) = <<bdy.data + 896>>
    /\ FreeList(M, 1) = <<bdy.data>>

----------------------------------------------------------------------------
(***************************************************************************)
(* buddy_bit_position alone: a caller that asks for the bit of one block   *)
(* after another, for every arena exponent K and every block of every      *)
(* order index 0 .. K - K_min.  op is the call made and log the one        *)
(* before it.                                                              *)
(***************************************************************************)
\* the offsets of the blocks of order index k in an arena of 2^max_k bytes
BlockOffsets(k, max_k) == {j * Pow2(max_k - k) : j \in 0 .. (Pow2(k) - 1)}

NoCall == [name |-> "none", k |-> 0, max_k |-> 0, offset |-> 0, ret |-> 0]

InitPair ==
    \E max_k \in (BUDDY_MIN_K + 1) .. MaxK :
        /\ heap = heap_init(0)
        /\ bdy = [ZeroStruct EXCEPT !.k = max_k]
        /\ bitset = <<>>
        /\ mem = <<>>
        /\ st = "ok"
        /\ live = {}
        /\ op = NoCall
        /\ calls = 0
        /\ blk = NoBlockHeap
        /\ cells = {}
        /\ scr = ZeroScratch
        /\ log = NoCall

BitPosition(k, offset) ==
    /\ op' = [name |-> "buddy_bit_position", k |-> k, max_k |-> bdy.k,
              offset |-> offset, ret |-> buddy_bit_position(k, bdy.k, offset)]
    /\ log' = op
    /\ UNCHANGED <<heap, bdy, bitset, mem, st, live, calls, blk, cells, scr>>

NextPair ==
    \E k \in 0 .. (bdy.k - BUDDY_MIN_K) :
        \E offset \in BlockOffsets(k, bdy.k) : BitPosition(k, offset)

SpecPair == InitPair /\ [][NextPair]_vars

\* ceil(x / 2) for x >= 0
CeilHalf(x) == (x + 1) \div 2

\* the calls c and d were for the two blocks of one pair
Buddies(c, d) ==
    /\ c.k = d.k /\ c.k >= 1
    /\ d.offset = XorPow2(c.offset, Pow2(c.max_k - c.k))

\* C36 (bit index mapping): for a block of order index k at a multiple off
\* of 2^(K-k), buddy_bit_position returns
\* ceil((off / 2^(K-k) + 2^k - 1) / 2), and two different blocks get the
\* same bit exactly when they are buddies of the same order index.
C36_BitIndex ==
    op.name = "buddy_bit_position" =>
        /\ op.ret = CeilHalf((op.offset \div Pow2(op.max_k - op.k)) + (Pow2(op.k) - 1))
        /\ (log.name = "buddy_bit_position"
                /\ <<log.k, log.offset>> # <<op.k, op.offset>>)
           => ((log.ret = op.ret) <=> Buddies(log, op))

\* the bits of the two blocks of order index 2 at 512 and 768 of a
\* 1024-byte arena were asked for, and they are the same bit, 3
C36_Witness ==
    /\ op.name = "buddy_bit_position" /\ log.name = "buddy_bit_position"
    /\ op.max_k = 10 /\ op.k = 2 /\ op.offset = 768
    /\ log.k = 2 /\ log.offset = 512
    /\ op.ret = 3 /\ log.ret = 3

----------------------------------------------------------------------------
(***************************************************************************)
(* The bits buddy_alloc and buddy_free touch.                              *)
(***************************************************************************)
\* nbits of buddy_heap_init: the bits the bitset was allocated for
BitsetLength == bit(bdy.k - BUDDY_MIN_K)

\* the last call toggled or read the bit of the block it returned or freed
TouchedBlock ==
    /\ st = "ok"
    /\ \/ op.name = "alloc" /\ op.ret # NULL
       \/ op.name = "free" /\ op.arg # NULL

\* C37 (bitset bound): the bit buddy_alloc toggles for the block it
\* returns, and the bit buddy_free reads for the block it frees, has an
\* index below the number of bits buddy_heap_init allocated the bitset for.
C37_BitsetBound ==
    TouchedBlock => PairBit(op.index, op.ptr_0 - bdy.data) < BitsetLength

----------------------------------------------------------------------------
(***************************************************************************)
(* buddy_free when the bitset and the freelists disagree, and when it      *)
(* stops.                                                                  *)
(***************************************************************************)
\* buddy_free is freeing the block at (k, off), will find the pair's bit
\* set, and list_delete will not find the buddy on freelist[k]
BuddyMissing(k, off) ==
    /\ st = "ok"
    /\ FreeingSet(k, off)
    /\ ~OnList(M, k, BuddyOf(k, off))

\* C38 (coalesce consistency failure): when buddy_free finds the pair's
\* bit set and the buddy is not on freelist[k], it ends in an error and
\* has pushed nothing, written no header and toggled no bit.
C38_MissingBuddy ==
    [][\A k \in 1 .. MinBlockIndex, off \in Offsets :
          BuddyMissing(k, off)
          => /\ st' # "ok"
             /\ UNCHANGED <<bdy, bitset, mem>>]_vars

\* how many times buddy_free(m, ptr) calls itself, one call inside the
\* other: the coalescing branch is taken once per level
RECURSIVE FreeDepth(_, _)
FreeDepth(m, ptr) ==
    IF m.st # "ok" \/ ptr = NULL THEN 0
    ELSE IF ~ByteReadable(m, ptr - PrefixSize)
            \/ ~Readable(m, (ptr - PrefixSize) + PrefixPtrOffset) THEN 0
    ELSE
    LET k      == ReadByte(m, ptr - PrefixSize)
        ptr_0  == m.mem[(ptr - PrefixSize) + PrefixPtrOffset]
        offset == ptr_0 - m.data
    IN
    IF ~BitPositionDefined(k, m.k) THEN 0
    ELSE
    LET bit_index == buddy_bit_position(k, m.k, offset) IN
    IF bit_index \notin DOMAIN m.bits THEN 0
    ELSE IF bit_check(m, bit_index) /\ bit_index # 0
    THEN LET buddy_offset == XorPow2(offset, Pow2(m.k - k))
             buddy  == m.data + buddy_offset
             d      == list_delete(m, k, buddy)
             ptr_0b == IF offset > buddy_offset THEN buddy ELSE ptr_0
             ptr_1  == AlignDown(ptr_0b + PrefixReserve(m), m.alignment)
         IN  1 + FreeDepth(WritePrefix(d.m, ptr_1, (k - 1) % 256, ptr_0b), ptr_1)
    ELSE 0

\* C39 (buddy_free terminates): buddy_free of a live pointer returns, its
\* scans of the freelists included, and it calls itself at most as many
\* times, one call inside the other, as the order index of the block.
C39_FreeTerminates ==
    [][(op'.name = "free" /\ op'.arg # NULL /\ st = "ok")
          => /\ st' = "ok"
             /\ FreeDepth(M, op'.arg) <= op'.index]_vars

\* C40 (eager coalescing): between calls, no freelist[k] with k >= 1 holds
\* both blocks of a pair of buddies.
C40_Eager ==
    st = "ok" =>
        \A k \in 1 .. (MinBlockIndex + 1) : \A off \in PairOffsets(k) :
            ~(OnList(M, k, off) /\ OnList(M, k, BuddyOf(k, off)))

====
